---------------------------- MODULE Spec2Model ----------------------------
(***************************************************************************)
(* Model of get_amedas_progressbar.py: the value converters (str2windir,   *)
(* str2float, mj2w), the retrying fetch, the row extractor (scraping), the *)
(* range driver (create_csv) and the argument checks of __main__.          *)
(*                                                                         *)
(* Python values are tagged records.  A text is a sequence of characters,  *)
(* each character a one-element name.  The module is ASCII, so the kanji   *)
(* and the multiplication sign of the source are written as                *)
(*    "N" = U+5317 (north)   "E" = U+6771 (east)   "S" = U+5357 (south)    *)
(*    "W" = U+897F (west)    "Sei" "On" = U+9759 U+7A4F (calm)             *)
(*    "x" = U+00D7 (the placeholder glyph)                                 *)
(* so that <<"N","N","E">> is the text north-north-east.  A float is an    *)
(* exact rational n/d in lowest terms, d > 0.                              *)
(***************************************************************************)
EXTENDS Integers, Sequences, FiniteSets, TLC

VARIABLES
    arg,        \* converters: the value handed to the converter
    conv,       \* converters: the converter that was called ("none" before)
    out,        \* converters: what the call produced (a value or an exception)
    pc,         \* where the program is
    argv,       \* the command line: prec_no, block_no, start, end, interval
    output_dir, \* whether the output directory exists
    file,       \* the output file: None until opened, then its lines
    start_date, \* __main__/create_csv: the parsed start date
    end_date,   \* __main__/create_csv: the parsed end date
    current_date, \* create_csv: the date of the current iteration
    days_left,  \* create_csv: iterations of range(total_days) still to run
    fetched,    \* history: the addresses handed to fetch_url_with_retry
    attempt_log, \* fetch_url_with_retry: the outcome of each urlopen of this call
    waits,      \* fetch_url_with_retry: the backoff sleeps of this call
    i,          \* fetch_url_with_retry: the loop variable
    response,   \* scraping: the response urlopen returned
    table,      \* scraping: the rows of the table found
    tr,         \* scraping: index of the next row of the table
    data_list_per_hour, \* scraping: the records built so far
    data_per_day, \* create_csv: the records scraping returned
    w,          \* create_csv: index of the next record to write
    returned,   \* history: what each completed call of scraping returned
    slept,      \* history: the politeness sleeps of create_csv
    exit_status, \* None while running, then the exit status of the process
    cause       \* why the process ended early ("none" otherwise)

convVars == <<arg, conv, out>>

mainVars == <<argv, output_dir, start_date, end_date>>

loopVars == <<file, current_date, days_left, data_per_day, w, returned, slept>>

fetchVars == <<fetched, attempt_log, waits, i, response>>

rowVars == <<table, tr, data_list_per_hour>>

endVars == <<exit_status, cause>>

vars == <<convVars, pc, mainVars, loopVars, fetchVars, rowVars, endVars>>

-----------------------------------------------------------------------------
(* Bounds of the model *)

\* longest text over Alphabet handed to a converter
MaxLen == 3

\* most rows of a table handed to the row extractor
MaxRows == 5

\* longest date range of a run
MaxDays == 3

-----------------------------------------------------------------------------
(* Python values *)

None == [t |-> "None"]

Str(s) == [t |-> "str", s |-> s]

RECURSIVE GCD(_, _)
GCD(a, b) == IF b = 0 THEN a ELSE GCD(b, a % b)

Abs(a) == IF a < 0 THEN -a ELSE a

\* the float n/d, in lowest terms
Float(n, d) ==
    LET g == GCD(Abs(n), Abs(d))
        sg == IF d < 0 THEN -1 ELSE 1
    IN  [t |-> "float", n |-> sg * (n \div g), d |-> sg * (d \div g)]

\* a * b for floats; the factors are cancelled crosswise before multiplying
FloatMul(a, b) ==
    LET g1 == GCD(Abs(a.n), b.d)
        g2 == GCD(Abs(b.n), a.d)
    IN  Float((a.n \div g1) * (b.n \div g2), (a.d \div g2) * (b.d \div g1))

\* a / b for floats, b # 0
FloatDiv(a, b) == FloatMul(a, Float(b.d, b.n))

\* a >= 0 for floats
FloatGE0(a) == a.n >= 0

\* the result of evaluating an expression: a value, or a raised exception
Return(v) == [exc |-> "none", val |-> v]

Raise(e) == [exc |-> e, val |-> None]

-----------------------------------------------------------------------------
(* Constants of the program *)

MISSING_VALUE == Float(-9999, 1)

MAX_RETRIES == 3

BACKOFF_FACTOR == Float(1, 2)

REQUEST_INTERVAL == Float(1, 1)

\* faulty variant: the table without its calm entry
WIND_DIRECTION_NoCalm ==
    << <<Str(<<"N">>), Float(0, 1)>>,            <<Str(<<"N","N","E">>), Float(225, 10)>>,
       <<Str(<<"N","E">>), Float(45, 1)>>,       <<Str(<<"E","N","E">>), Float(675, 10)>>,
       <<Str(<<"E">>), Float(90, 1)>>,           <<Str(<<"E","S","E">>), Float(1125, 10)>>,
       <<Str(<<"S","E">>), Float(135, 1)>>,      <<Str(<<"S","S","E">>), Float(1575, 10)>>,
       <<Str(<<"S">>), Float(180, 1)>>,          <<Str(<<"S","S","W">>), Float(2025, 10)>>,
       <<Str(<<"S","W">>), Float(225, 1)>>,      <<Str(<<"W","S","W">>), Float(2475, 10)>>,
       <<Str(<<"W">>), Float(270, 1)>>,          <<Str(<<"W","N","W">>), Float(2925, 10)>>,
       <<Str(<<"N","W">>), Float(315, 1)>>,      <<Str(<<"N","N","W">>), Float(3375, 10)>> >>

\* the keys and values of the lookup table, in the order of the source
WIND_DIRECTION ==
    << <<Str(<<"N">>), Float(0, 1)>>,            <<Str(<<"N","N","E">>), Float(225, 10)>>,
       <<Str(<<"N","E">>), Float(45, 1)>>,       <<Str(<<"E","N","E">>), Float(675, 10)>>,
       <<Str(<<"E">>), Float(90, 1)>>,           <<Str(<<"E","S","E">>), Float(1125, 10)>>,
       <<Str(<<"S","E">>), Float(135, 1)>>,      <<Str(<<"S","S","E">>), Float(1575, 10)>>,
       <<Str(<<"S">>), Float(180, 1)>>,          <<Str(<<"S","S","W">>), Float(2025, 10)>>,
       <<Str(<<"S","W">>), Float(225, 1)>>,      <<Str(<<"W","S","W">>), Float(2475, 10)>>,
       <<Str(<<"W">>), Float(270, 1)>>,          <<Str(<<"W","N","W">>), Float(2925, 10)>>,
       <<Str(<<"N","W">>), Float(315, 1)>>,      <<Str(<<"N","N","W">>), Float(3375, 10)>>,
       <<Str(<<"Sei","On">>), Float(0, 1)>> >>

-----------------------------------------------------------------------------
(* Text operations of the Python library used by the converters *)

Digits == {"0", "1", "2", "5"}

Whitespace == {" "}

\* the characters the model draws texts from
Alphabet == Digits \cup Whitespace \cup
            {".", "-", ")", "#", "x", "/", "N", "E", "S", "W", "Sei", "On"}

\* s.replace(ch, ''): every occurrence of ch removed
RECURSIVE Remove(_, _)
Remove(s, ch) ==
    IF s = <<>> THEN <<>>
    ELSE IF Head(s) = ch THEN Remove(Tail(s), ch)
    ELSE <<Head(s)>> \o Remove(Tail(s), ch)

RECURSIVE LStrip(_)
LStrip(s) ==
    IF s # <<>> /\ Head(s) \in Whitespace THEN LStrip(Tail(s)) ELSE s

RECURSIVE RStrip(_)
RStrip(s) ==
    IF s # <<>> /\ s[Len(s)] \in Whitespace
    THEN RStrip(SubSeq(s, 1, Len(s) - 1)) ELSE s

\* s.strip(): leading and trailing whitespace removed
Strip(s) == RStrip(LStrip(s))

\* v.replace(')', '').strip(): an AttributeError when v has no replace method
ReplaceStrip(v) ==
    IF v.t # "str" THEN Raise("AttributeError")
    ELSE Return(Str(Strip(Remove(v.s, ")"))))

\* WIND_DIRECTION[key]: a KeyError when the key is not in the table
Lookup(key) ==
    LET hits == {j \in 1..Len(WIND_DIRECTION) : WIND_DIRECTION[j][1] = key}
    IN  IF hits = {} THEN Raise("KeyError")
        ELSE Return(WIND_DIRECTION[CHOOSE j \in hits : TRUE][2])

DigitVal(c) == CASE c = "0" -> 0 [] c = "1" -> 1 [] c = "2" -> 2 [] c = "5" -> 5

RECURSIVE DecVal(_)
DecVal(s) ==
    IF s = <<>> THEN 0 ELSE DecVal(SubSeq(s, 1, Len(s) - 1)) * 10 + DigitVal(s[Len(s)])

RECURSIVE Pow10(_)
Pow10(k) == IF k = 0 THEN 1 ELSE 10 * Pow10(k - 1)

\* the decimal literals float() accepts over Alphabet:
\* ['-'] (digit+ ['.' digit*] | '.' digit+)
IsFloatText(s) ==
    LET body == IF s # <<>> /\ Head(s) = "-" THEN Tail(s) ELSE s
        dots == {j \in 1..Len(body) : body[j] = "."}
    IN  /\ Cardinality(dots) <= 1
        /\ \A j \in 1..Len(body) : body[j] \in Digits \cup {"."}
        /\ \E j \in 1..Len(body) : body[j] \in Digits

FloatOfText(s) ==
    LET neg == Head(s) = "-"
        body == IF neg THEN Tail(s) ELSE s
        digs == Remove(body, ".")
        dots == {j \in 1..Len(body) : body[j] = "."}
        frac == IF dots = {} THEN 0 ELSE Len(body) - (CHOOSE j \in dots : TRUE)
        mag == DecVal(digs)
    IN  Float(IF neg THEN -mag ELSE mag, Pow10(frac))

\* float(v): a float as it is, a text parsed (ValueError when it is no
\* literal), a TypeError for anything else
PyFloat(v) ==
    IF v.t = "float" THEN Return(v)
    ELSE IF v.t = "str"
    THEN IF IsFloatText(Strip(v.s)) THEN Return(FloatOfText(Strip(v.s)))
         ELSE Raise("ValueError")
    ELSE Raise("TypeError")

-----------------------------------------------------------------------------
(* The converters *)

\* the body of the try block of str2windir
str2windir_try(wind_str) ==
    IF wind_str = None \/ wind_str \in {Str(<<"#">>), Str(<<"x">>)}
    THEN Return(MISSING_VALUE)
    ELSE LET stripped == ReplaceStrip(wind_str)
         IN  IF stripped.exc # "none" THEN stripped ELSE Lookup(stripped.val)

\* faulty variant: the except clause without KeyError
str2windir_except_NoKeyError == {"AttributeError"}

\* the exceptions the except clause of str2windir catches
str2windir_except == {"KeyError", "AttributeError"}

str2windir(wind_str) ==
    LET r == str2windir_try(wind_str)
    IN  IF r.exc \in str2windir_except THEN Return(MISSING_VALUE) ELSE r

\* the body of the try block of str2float
str2float_try(weather_data) ==
    IF weather_data = None THEN Return(Float(0, 1))
    ELSE LET stripped == IF weather_data.t = "str"
                         THEN ReplaceStrip(weather_data).val
                         ELSE weather_data
         IN  IF stripped = Str(<<"-", "-">>) THEN Return(Float(0, 1))
             ELSE PyFloat(stripped)

\* faulty variant: the except clause without ValueError
str2float_except_NoValueError == {"TypeError"}

\* the exceptions the except clause of str2float catches
str2float_except == {"ValueError", "TypeError"}

str2float(weather_data) ==
    LET r == str2float_try(weather_data)
    IN  IF r.exc \in str2float_except THEN Return(MISSING_VALUE) ELSE r

\* faulty variant: the conversion without the test of the sign
mj2w_NoClamp(mj_value) ==
    Return(FloatMul(mj_value, FloatDiv(Float(10^6, 1), Float(3600, 1))))

\* mj_value * 10**6 / 3600, exactly; 10**6 / 3600 is reduced first, which
\* keeps the intermediate product small and changes nothing in exact arithmetic
mj2w(mj_value) ==
    IF FloatGE0(mj_value)
    THEN Return(FloatMul(mj_value, FloatDiv(Float(10^6, 1), Float(3600, 1))))
    ELSE Return(Float(0, 1))

-----------------------------------------------------------------------------
(* Dates: datetime.date, strptime and timedelta of the Python library *)

Date(y, m, d) == [t |-> "date", y |-> y, m |-> m, d |-> d]

IsLeap(y) == y % 4 = 0 /\ (y % 100 # 0 \/ y % 400 = 0)

DaysInMonth(y, m) ==
    IF m = 2 THEN (IF IsLeap(y) THEN 29 ELSE 28)
    ELSE IF m \in {4, 6, 9, 11} THEN 30 ELSE 31

\* datetime.strptime(text, "%Y-%m-%d").date().  A date text is modelled by
\* the numbers between its hyphens, <<2000, 2, 29>> for "2000-02-29"; a text
\* of another shape, or naming no calendar day, raises ValueError
strptime(text) ==
    IF Len(text) # 3 THEN Raise("ValueError")
    ELSE IF text[1] \notin 1..9999 \/ text[2] \notin 1..12 \/ text[3] \notin 1..31
    THEN Raise("ValueError")
    ELSE IF text[3] > DaysInMonth(text[1], text[2]) THEN Raise("ValueError")
    ELSE Return(Date(text[1], text[2], text[3]))

RECURSIVE DaysBeforeMonth(_, _)
DaysBeforeMonth(y, m) ==
    IF m = 1 THEN 0 ELSE DaysBeforeMonth(y, m - 1) + DaysInMonth(y, m - 1)

\* date.toordinal(): the day number, 0001-01-01 being day 1
ToOrdinal(date) ==
    LET y1 == date.y - 1
    IN  y1 * 365 + (y1 \div 4) - (y1 \div 100) + (y1 \div 400)
        + DaysBeforeMonth(date.y, date.m) + date.d

\* faulty variant: only the years are compared
DateGT_YearOnly(a, b) == a.y > b.y

\* a > b for dates
DateGT(a, b) == <<a.y, a.m, a.d>> # <<b.y, b.m, b.d>> /\
    \/ a.y > b.y
    \/ a.y = b.y /\ a.m > b.m
    \/ a.y = b.y /\ a.m = b.m /\ a.d > b.d

\* (a - b).days
DaysBetween(a, b) == ToOrdinal(a) - ToOrdinal(b)

\* faulty variant: February always has 28 days
NextDay_NoLeap(date) ==
    IF date.d < (IF date.m = 2 THEN 28 ELSE DaysInMonth(date.y, date.m))
    THEN Date(date.y, date.m, date.d + 1)
    ELSE IF date.m < 12 THEN Date(date.y, date.m + 1, 1)
    ELSE Date(date.y + 1, 1, 1)

\* date + timedelta(days=1)
NextDay(date) ==
    IF date.d < DaysInMonth(date.y, date.m) THEN Date(date.y, date.m, date.d + 1)
    ELSE IF date.m < 12 THEN Date(date.y, date.m + 1, 1)
    ELSE Date(date.y + 1, 1, 1)

-----------------------------------------------------------------------------
(* The row extractor: one record of scraping *)

\* faulty variant: a row needs more than 14 cells
MinCells_OneMore == 14 + 1

\* a row of the table has at least this many td cells, or is skipped
MinCells == 14

\* index (from 1) of the first row that is not skipped as a header: [2:]
FirstDataRow == 3

\* mj2w(str2float(cell))
Irradiance(cell) ==
    LET v == str2float(cell)
    IN  IF v.exc # "none" THEN v ELSE mj2w(v.val)

\* the converter of each field of data_row, in the order of the list
ColumnConverter ==
    << "date", "string",
       "str2float", "str2float", "str2float", "str2float", "str2float",
       "str2float", "str2float", "str2float", "str2windir",
       "str2float", "mj2w(str2float)", "str2float", "str2float" >>

\* one field of data_row (tds[k] of the model is tds[k-1].string of the
\* source; field k > 1 reads tds[k-2] of the source)
Field(k, tds, date) ==
    CASE ColumnConverter[k] = "date" -> Return(date)
      [] ColumnConverter[k] = "string" -> Return(tds[k - 1])
      [] ColumnConverter[k] = "str2float" -> str2float(tds[k - 1])
      [] ColumnConverter[k] = "str2windir" -> str2windir(tds[k - 1])
      [] ColumnConverter[k] = "mj2w(str2float)" -> Irradiance(tds[k - 1])

\* the list data_row built from the cells: the record, or the first
\* exception raised while building it
DataRow(tds, date) ==
    LET cells == [k \in 1..Len(ColumnConverter) |-> Field(k, tds, date)]
        bad == {k \in 1..Len(cells) : cells[k].exc # "none"}
    IN  IF bad # {}
        THEN Raise(cells[CHOOSE k \in bad : \A l \in bad : k <= l].exc)
        ELSE Return([k \in 1..Len(cells) |-> cells[k].val])

-----------------------------------------------------------------------------
(* What the model draws from *)

AllTexts(n) == UNION {[1..len -> Alphabet] : len \in 0..n}

\* texts as the pages carry them: a table key or a number, with the
\* whitespace and the ')' the source strips
Decorated ==
    LET cores == {WIND_DIRECTION[k][1].s : k \in 1..Len(WIND_DIRECTION)}
                 \cup {<<"1", "2", ".", "5">>, <<"-", "0", ".", "5">>, <<"-", "-">>}
        pre == {<<>>, <<" ">>}
        post == {<<>>, <<")">>, <<" ", ")">>, <<")", " ">>}
    IN  {a \o c \o b : a \in pre, c \in cores, b \in post}

\* the values handed to a converter: None, texts, and floats
Inputs ==
    {None} \cup {Str(s) : s \in AllTexts(MaxLen) \cup Decorated}
    \cup {Float(0, 1), Float(3, 2), Float(-1, 1), MISSING_VALUE}

MkRow(n, hour, fill, wind, rad) ==
    [k \in 1..n |-> IF k = 1 THEN hour ELSE IF k = 10 THEN wind
                    ELSE IF k = 12 THEN rad ELSE fill]

\* rows of a page, as the .string of their td cells
RowGood == MkRow(14, Str(<<"1">>), Str(<<"1", ".", "5">>), Str(<<"N", "E">>),
                 Str(<<"1", ".", "5">>))

RowLong == MkRow(15, Str(<<"2">>), None, Str(<<"x">>), Str(<<"x">>))

RowMarked == MkRow(14, None, Str(<<"-", "-">>), Str(<<"Sei", "On", " ", ")">>),
                   Str(<<"-", "1">>))

RowShort == MkRow(13, Str(<<"5">>), Str(<<"1">>), Str(<<"N">>), Str(<<"1">>))

RowBlank == MkRow(14, Str(<<"0">>), Str(<<" ">>), Str(<<"#">>), Str(<<"1">>))

RowHeader == <<>>

RowSet == {RowGood, RowLong, RowMarked, RowBlank, RowShort, RowHeader}

Table(rows) == [t |-> "table", rows |-> rows]

\* the tables handed to the row extractor
Tables == {Table(r) : r \in UNION {[1..len -> RowSet] : len \in 0..MaxRows}}

\* the tables of the pages of a run
PageTables == {Table(<<RowHeader>>),
               Table(<<RowHeader, RowHeader, RowGood>>),
               Table(<<RowGood, RowHeader, RowShort, RowLong, RowMarked>>)}

Doc(html, head, body, tbl) ==
    [html |-> html, head |-> head, body |-> body, table |-> tbl]

Response(code, readable, doc) ==
    [t |-> "response", code |-> code, readable |-> readable, doc |-> doc]

\* what urlopen may return
Responses ==
    LET some == Table(<<RowHeader, RowHeader, RowGood>>)
    IN  {Response(200, TRUE, Doc(TRUE, TRUE, TRUE, tbl)) : tbl \in PageTables \cup {None}}
        \cup {Response(203, TRUE, Doc(TRUE, TRUE, TRUE, some)),
              Response(200, FALSE, Doc(TRUE, TRUE, TRUE, some)),
              Response(200, TRUE, Doc(FALSE, TRUE, TRUE, some)),
              Response(200, TRUE, Doc(TRUE, FALSE, TRUE, some)),
              Response(200, TRUE, Doc(TRUE, TRUE, FALSE, some))}

\* date texts of the command line
DateTexts == {<<1999, 12, 31>>, <<2000, 1, 1>>, <<2000, 2, 28>>, <<2000, 2, 29>>,
              <<2000, 3, 1>>, <<2000, 3, 2>>, <<2001, 2, 29>>, <<2000, 13, 1>>,
              <<2000, 2>>}

\* the command lines: the range is at most MaxDays long
Argvs ==
    {a \in [prec_no : {44}, block_no : {47662}, start : DateTexts, end : DateTexts,
            interval : {REQUEST_INTERVAL, Float(0, 1)}] :
        strptime(a.start).exc = "none" /\ strptime(a.end).exc = "none"
            => DaysBetween(strptime(a.end).val, strptime(a.start).val) < MaxDays}

Status(n) == [t |-> "int", v |-> n]

File(lines, closed) == [t |-> "file", lines |-> lines, closed |-> closed]

\* the header line of the CSV
fields ==
    LET names == <<"date", "hour", "pressure_station", "pressure_sea", "precipitation",
                   "temperature", "dew_point", "vapor_pressure", "humidity",
                   "wind_speed", "wind_direction", "sunshine", "irradiance",
                   "snowfall", "snow_depth">>
    IN  [k \in 1..Len(names) |-> Str(<<names[k]>>)]

Url(prec_no, block_no, date) ==
    [prec_no |-> prec_no, block_no |-> block_no,
     year |-> date.y, month |-> date.m, day |-> date.d]

-----------------------------------------------------------------------------
(* The converters, called on their own *)

InitConv ==
    /\ arg \in Inputs
    /\ conv = "none"
    /\ out = None
    /\ pc = "converter"
    /\ argv = None /\ output_dir = FALSE /\ start_date = None /\ end_date = None
    /\ file = None /\ current_date = None /\ days_left = 0
    /\ data_per_day = <<>> /\ w = 1 /\ returned = <<>> /\ slept = <<>>
    /\ fetched = <<>> /\ attempt_log = <<>> /\ waits = <<>> /\ i = 0
    /\ response = None
    /\ table = None /\ tr = FirstDataRow /\ data_list_per_hour = <<>>
    /\ exit_status = None /\ cause = "none"

CallStr2windir ==
    /\ pc = "converter" /\ conv = "none"
    /\ conv' = "str2windir"
    /\ out' = str2windir(arg)
    /\ UNCHANGED <<arg, pc, mainVars, loopVars, fetchVars, rowVars, endVars>>

CallStr2float ==
    /\ pc = "converter" /\ conv = "none"
    /\ conv' = "str2float"
    /\ out' = str2float(arg)
    /\ UNCHANGED <<arg, pc, mainVars, loopVars, fetchVars, rowVars, endVars>>

CallMj2w ==
    /\ pc = "converter" /\ conv = "none"
    /\ arg.t = "float"
    /\ conv' = "mj2w"
    /\ out' = mj2w(arg)
    /\ UNCHANGED <<arg, pc, mainVars, loopVars, fetchVars, rowVars, endVars>>

NextConv == CallStr2windir \/ CallStr2float \/ CallMj2w

SpecConv == InitConv /\ [][NextConv]_vars

-----------------------------------------------------------------------------
(* The program: __main__, create_csv, scraping, fetch_url_with_retry *)

Init ==
    /\ pc = "main"
    /\ argv \in Argvs
    /\ output_dir \in BOOLEAN
    /\ file = None
    /\ start_date = None /\ end_date = None
    /\ current_date = None /\ days_left = 0
    /\ data_per_day = <<>> /\ w = 1 /\ returned = <<>> /\ slept = <<>>
    /\ fetched = <<>> /\ attempt_log = <<>> /\ waits = <<>> /\ i = 0
    /\ response = None
    /\ table = None /\ tr = FirstDataRow /\ data_list_per_hour = <<>>
    /\ exit_status = None /\ cause = "none"
    /\ arg = None /\ conv = "none" /\ out = None

\* sys.exit(1): SystemExit unwinds to the top; a with block on the way
\* closes the file
Exit(why) ==
    /\ pc' = "exit"
    /\ exit_status' = Status(1)
    /\ cause' = why
    /\ file' = IF file = None THEN None ELSE File(file.lines, TRUE)

\* __main__: strptime of --start or --end raises ValueError
MainBadDate ==
    /\ pc = "main"
    /\ strptime(argv.start).exc = "ValueError" \/ strptime(argv.end).exc = "ValueError"
    /\ Exit("date")
    /\ UNCHANGED <<convVars, mainVars, current_date, days_left, data_per_day, w,
                   returned, slept, fetchVars, rowVars>>

\* __main__: start_date > end_date
MainBadRange ==
    /\ pc = "main"
    /\ strptime(argv.start).exc = "none" /\ strptime(argv.end).exc = "none"
    /\ DateGT(strptime(argv.start).val, strptime(argv.end).val)
    /\ start_date' = strptime(argv.start).val
    /\ end_date' = strptime(argv.end).val
    /\ Exit("range")
    /\ UNCHANGED <<convVars, argv, output_dir, current_date, days_left, data_per_day,
                   w, returned, slept, fetchVars, rowVars>>

\* __main__: the dates are accepted and create_csv is called
MainCall ==
    /\ pc = "main"
    /\ strptime(argv.start).exc = "none" /\ strptime(argv.end).exc = "none"
    /\ ~DateGT(strptime(argv.start).val, strptime(argv.end).val)
    /\ start_date' = strptime(argv.start).val
    /\ end_date' = strptime(argv.end).val
    /\ pc' = "create_csv"
    /\ UNCHANGED <<convVars, argv, output_dir, loopVars, fetchVars, rowVars, endVars>>

\* create_csv up to the loop: the directory is made, the file is opened
\* (truncated) and the header line is written
CreateCsvOpen ==
    /\ pc = "create_csv"
    /\ output_dir' = TRUE
    /\ file' = File(<<fields>>, FALSE)
    /\ current_date' = start_date
    /\ days_left' = DaysBetween(end_date, start_date) + 1
    /\ pc' = "loop"
    /\ UNCHANGED <<convVars, argv, start_date, end_date, data_per_day, w, returned,
                   slept, fetchVars, rowVars, endVars>>

\* create_csv: the next iteration builds the address and calls scraping,
\* which calls fetch_url_with_retry
LoopFetch ==
    /\ pc = "loop"
    /\ days_left > 0
    /\ fetched' = Append(fetched, Url(argv.prec_no, argv.block_no, current_date))
    /\ attempt_log' = <<>>
    /\ waits' = <<>>
    /\ i' = 0
    /\ pc' = "urlopen"
    /\ UNCHANGED <<convVars, mainVars, loopVars, response, rowVars, endVars>>

\* create_csv: the loop is over, the file is closed, the process ends
LoopEnd ==
    /\ pc = "loop"
    /\ days_left = 0
    /\ file' = File(file.lines, TRUE)
    /\ exit_status' = Status(0)
    /\ pc' = "done"
    /\ UNCHANGED <<convVars, mainVars, current_date, days_left, data_per_day, w,
                   returned, slept, fetchVars, rowVars, cause>>

\* fetch_url_with_retry: urlopen returns a response, which is returned
UrlopenReturns ==
    /\ pc = "urlopen"
    /\ i < MAX_RETRIES
    /\ \E r \in Responses : response' = r
    /\ attempt_log' = Append(attempt_log, "ok")
    /\ pc' = "validate"
    /\ UNCHANGED <<convVars, mainVars, loopVars, fetched, waits, i, rowVars, endVars>>

\* faulty variant: the exponent of the backoff is one too large
UrlopenRetry_LongerWait ==
    /\ pc = "urlopen"
    /\ i < MAX_RETRIES - 1
    /\ attempt_log' = Append(attempt_log, "URLError")
    /\ waits' = Append(waits, FloatMul(BACKOFF_FACTOR, Float(2^(i + 1), 1)))
    /\ i' = i + 1
    /\ UNCHANGED <<convVars, pc, mainVars, loopVars, fetched, response, rowVars, endVars>>

\* fetch_url_with_retry: urlopen raises URLError and it was not the last
\* attempt: sleep backoff_factor * 2 ** i, then the next attempt
UrlopenRetry ==
    /\ pc = "urlopen"
    /\ i < MAX_RETRIES - 1
    /\ attempt_log' = Append(attempt_log, "URLError")
    /\ waits' = Append(waits, FloatMul(BACKOFF_FACTOR, Float(2^i, 1)))
    /\ i' = i + 1
    /\ UNCHANGED <<convVars, pc, mainVars, loopVars, fetched, response, rowVars, endVars>>

\* fetch_url_with_retry: urlopen raises URLError on the last attempt: no
\* sleep, the loop ends, Exception is raised; scraping's except Exception
\* clause prints and calls sys.exit(1)
UrlopenExhausted ==
    /\ pc = "urlopen"
    /\ i = MAX_RETRIES - 1
    /\ attempt_log' = Append(attempt_log, "URLError")
    /\ Exit("retries")
    /\ UNCHANGED <<convVars, mainVars, current_date, days_left, data_per_day, w,
                   returned, slept, fetched, waits, i, response, rowVars>>

\* fetch_url_with_retry: urlopen raises an exception that is no URLError;
\* no except clause of fetch_url_with_retry matches, scraping's except
\* Exception clause prints and calls sys.exit(1)
UrlopenOtherError ==
    /\ pc = "urlopen"
    /\ i < MAX_RETRIES
    /\ attempt_log' = Append(attempt_log, "OtherError")
    /\ Exit("error")
    /\ UNCHANGED <<convVars, mainVars, current_date, days_left, data_per_day, w,
                   returned, slept, fetched, waits, i, response, rowVars>>

\* faulty variant: the status code is not checked
PageFault_NoStatus(r) ==
    IF ~r.readable THEN "read"
    ELSE IF ~r.doc.html \/ ~r.doc.head \/ ~r.doc.body THEN "structure"
    ELSE IF r.doc.table = None THEN "table"
    ELSE "none"

\* why scraping ends the process on this response, "none" when it does not
PageFault(r) ==
    IF ~r.readable THEN "read"
    ELSE IF r.code # 200 THEN "status"
    ELSE IF ~r.doc.html \/ ~r.doc.head \/ ~r.doc.body THEN "structure"
    ELSE IF r.doc.table = None THEN "table"
    ELSE "none"

\* scraping: read() raises, the status is not 200, html, head or body is
\* missing, or no table of class data2_s is found: sys.exit(1)
ValidateFail ==
    /\ pc = "validate"
    /\ PageFault(response) # "none"
    /\ Exit(PageFault(response))
    /\ UNCHANGED <<convVars, mainVars, current_date, days_left, data_per_day, w,
                   returned, slept, fetchVars, rowVars>>

\* scraping: the page passes the checks; the loop over the rows begins
\* after the first two
ValidateOk ==
    /\ pc = "validate"
    /\ PageFault(response) = "none"
    /\ table' = response.doc.table
    /\ tr' = FirstDataRow
    /\ data_list_per_hour' = <<>>
    /\ pc' = "rows"
    /\ UNCHANGED <<convVars, mainVars, loopVars, fetchVars, endVars>>

\* scraping: a row with fewer than 14 cells is skipped
RowSkip ==
    /\ pc = "rows"
    /\ tr <= Len(table.rows)
    /\ Len(table.rows[tr]) < MinCells
    /\ tr' = tr + 1
    /\ UNCHANGED <<convVars, pc, mainVars, loopVars, fetchVars, table,
                   data_list_per_hour, endVars>>

\* scraping: a row with at least 14 cells is converted and appended; an
\* exception of a converter is caught nowhere and ends the process
RowAppend ==
    /\ pc = "rows"
    /\ tr <= Len(table.rows)
    /\ Len(table.rows[tr]) >= MinCells
    /\ LET data_row == DataRow(table.rows[tr], current_date)
       IN  IF data_row.exc = "none"
           THEN /\ data_list_per_hour' = Append(data_list_per_hour, data_row.val)
                /\ tr' = tr + 1
                /\ UNCHANGED <<pc, file, endVars>>
           ELSE /\ Exit(data_row.exc)
                /\ UNCHANGED <<tr, data_list_per_hour>>
    /\ UNCHANGED <<convVars, mainVars, current_date, days_left, data_per_day, w,
                   returned, slept, fetchVars, table>>

\* scraping returns data_list_per_hour to create_csv
ScrapingReturns ==
    /\ pc = "rows"
    /\ tr > Len(table.rows)
    /\ data_per_day' = data_list_per_hour
    /\ returned' = Append(returned, [date |-> current_date, rows |-> data_list_per_hour])
    /\ w' = 1
    /\ pc' = "write"
    /\ UNCHANGED <<convVars, mainVars, file, current_date, days_left, slept,
                   fetchVars, rowVars, endVars>>

\* create_csv: writer.writerow(row) for the next record of the day
WriteRow ==
    /\ pc = "write"
    /\ w <= Len(data_per_day)
    /\ file' = File(Append(file.lines, data_per_day[w]), FALSE)
    /\ w' = w + 1
    /\ UNCHANGED <<convVars, pc, mainVars, current_date, days_left, data_per_day,
                   returned, slept, fetchVars, rowVars, endVars>>

\* create_csv: the day is written: time.sleep(request_interval), then
\* current_date += timedelta(days=1)
SleepAndAdvance ==
    /\ pc = "write"
    /\ w > Len(data_per_day)
    /\ slept' = Append(slept, argv.interval)
    /\ current_date' = NextDay(current_date)
    /\ days_left' = days_left - 1
    /\ pc' = "loop"
    /\ UNCHANGED <<convVars, mainVars, file, data_per_day, w, returned, fetchVars,
                   rowVars, endVars>>

Next ==
    \/ MainBadDate \/ MainBadRange \/ MainCall
    \/ CreateCsvOpen \/ LoopFetch \/ LoopEnd
    \/ UrlopenReturns \/ UrlopenRetry \/ UrlopenExhausted \/ UrlopenOtherError
    \/ ValidateFail \/ ValidateOk
    \/ RowSkip \/ RowAppend \/ ScrapingReturns
    \/ WriteRow \/ SleepAndAdvance

Spec == Init /\ [][Next]_vars

\* The row extractor on its own: scraping has found the table of the first
\* date of a one-day run and is about to loop over its rows
InitScrape ==
    /\ pc = "rows"
    /\ argv = [prec_no |-> 44, block_no |-> 47662, start |-> <<2000, 2, 29>>,
               end |-> <<2000, 2, 29>>, interval |-> REQUEST_INTERVAL]
    /\ output_dir = TRUE
    /\ file = File(<<fields>>, FALSE)
    /\ start_date = Date(2000, 2, 29) /\ end_date = Date(2000, 2, 29)
    /\ current_date = Date(2000, 2, 29) /\ days_left = 1
    /\ data_per_day = <<>> /\ w = 1 /\ returned = <<>> /\ slept = <<>>
    /\ fetched = <<Url(44, 47662, Date(2000, 2, 29))>>
    /\ attempt_log = <<"ok">> /\ waits = <<>> /\ i = 0
    /\ \E tbl \in Tables :
          /\ response = Response(200, TRUE, Doc(TRUE, TRUE, TRUE, tbl))
          /\ table = tbl
    /\ tr = FirstDataRow /\ data_list_per_hour = <<>>
    /\ exit_status = None /\ cause = "none"
    /\ arg = None /\ conv = "none" /\ out = None

NextScrape == RowSkip \/ RowAppend \/ ScrapingReturns

SpecScrape == InitScrape /\ [][NextScrape]_vars

-----------------------------------------------------------------------------
(* Reference definitions for the converter claims *)

\* s without its ')' characters
NoParen(s) == SelectSeq(s, LAMBDA c : c # ")")

\* s without its leading and trailing whitespace
Trim(s) ==
    LET solid == {k \in 1..Len(s) : s[k] \notin Whitespace}
    IN  IF solid = {} THEN <<>>
        ELSE SubSeq(s, CHOOSE k \in solid : \A l \in solid : k <= l,
                       CHOOSE k \in solid : \A l \in solid : k >= l)

\* the 16 compass points, clockwise from north
CompassPoints ==
    << <<"N">>, <<"N","N","E">>, <<"N","E">>, <<"E","N","E">>,
       <<"E">>, <<"E","S","E">>, <<"S","E">>, <<"S","S","E">>,
       <<"S">>, <<"S","S","W">>, <<"S","W">>, <<"W","S","W">>,
       <<"W">>, <<"W","N","W">>, <<"N","W">>, <<"N","N","W">> >>

CalmToken == <<"Sei", "On">>

PlaceholderGlyphs == {<<"#">>, <<"x">>}

\* the k-th multiple of 22.5
Angle(k) == Float(k * 225, 10)

Sentinel == Float(-9999, 1)

Zero == Float(0, 1)

\* the angle the reference gives a text
RefWindir(s) ==
    LET r == Trim(NoParen(s))
        pt == {k \in 1..Len(CompassPoints) : CompassPoints[k] = r}
    IN  IF pt # {} THEN Angle((CHOOSE k \in pt : TRUE) - 1)
        ELSE IF r = CalmToken THEN Zero
        ELSE Sentinel

\* C2: str2windir never raises and equals the reference: None gives the
\* sentinel; a text, once its ')' and surrounding whitespace are removed,
\* gives k * 22.5 when it is the k-th compass point clockwise from north,
\* 0 when it is the calm token, and the sentinel otherwise (placeholder
\* glyphs included).
C2_Str2windirReference ==
    conv = "str2windir" =>
        /\ out.exc = "none"
        /\ arg = None => out.val = Sentinel
        /\ arg.t = "str" => out.val = RefWindir(arg.s)

C2_Witness ==
    /\ conv = "str2windir"
    /\ arg = Str(<<" ", "N", "N", "W", " ", ")">>)
    /\ out = Return(Float(675, 2))

\* C3 as stated: every compass point gives its multiple of 22.5, and the
\* calm token and each placeholder glyph give the sentinel.
C3_CalmIsSentinel ==
    conv = "str2windir" /\ arg.t = "str" =>
        /\ \A k \in 1..Len(CompassPoints) :
              arg.s = CompassPoints[k] => out = Return(Angle(k - 1))
        /\ arg.s = CalmToken => out = Return(Sentinel)
        /\ arg.s \in PlaceholderGlyphs => out = Return(Sentinel)

\* C3 amended: every compass point gives its multiple of 22.5, the calm
\* token gives 0, and each placeholder glyph gives the sentinel.
C3_CalmIsZero ==
    conv = "str2windir" /\ arg.t = "str" =>
        /\ \A k \in 1..Len(CompassPoints) :
              arg.s = CompassPoints[k] => out = Return(Angle(k - 1))
        /\ arg.s = CalmToken => out = Return(Zero)
        /\ arg.s \in PlaceholderGlyphs => out = Return(Sentinel)

C3_Witness ==
    /\ conv = "str2windir"
    /\ arg = Str(CalmToken)
    /\ out = Return(Zero)

\* the number the reference gives a text
RefFloat(s) ==
    LET r == Trim(NoParen(s))
    IN  IF r = <<"-", "-">> THEN Zero
        ELSE IF IsFloatText(r) THEN FloatOfText(r)
        ELSE Sentinel

\* the number the reference gives a cell: 0.0 for an absent one
RefFloatOrZero(v) == IF v = None THEN Zero ELSE RefFloat(v.s)

C5_EmptyIsZero ==
    conv = "str2float" /\ (arg = None \/ (arg.t = "str" /\ Trim(NoParen(arg.s)) = <<>>))
        => out = Return(Zero)

-----------------------------------------------------------------------------
(* The row extractor claims *)

\* the rows after the first two that the loop of scraping has passed
RowsSeen == [k \in 1..(tr - 3) |-> table.rows[k + 2]]

\* those of them that have at least 14 cells, in their order
RowsKept == SelectSeq(RowsSeen, LAMBDA r : Len(r) >= 14)

\* C1: scraping skips the first two rows; of the N rows after them, M with
\* fewer than 14 cells, it returns N - M records in the order of their rows;
\* a record has 15 fields: the date, the hour label of its row and 13
\* numbers; no row is converted in part and no error is raised.
C1_RowExtractor ==
    pc \in {"rows", "write", "exit"} =>
        LET M == Cardinality({k \in 1..Len(RowsSeen) : Len(RowsSeen[k]) < 14})
        IN  /\ pc # "exit" /\ cause = "none"
            /\ Len(data_list_per_hour) = Len(RowsSeen) - M
            /\ \A k \in 1..Len(data_list_per_hour) :
                  /\ Len(data_list_per_hour[k]) = 15
                  /\ data_list_per_hour[k][1] = current_date
                  /\ data_list_per_hour[k][2] = RowsKept[k][1]
                  /\ \A f \in 3..15 : data_list_per_hour[k][f].t = "float"
                  /\ data_list_per_hour[k][3] = RefFloatOrZero(RowsKept[k][2])
            /\ pc = "write" =>
                  /\ data_per_day = data_list_per_hour
                  /\ returned[Len(returned)].rows = data_list_per_hour
                  /\ Len(table.rows) >= 2 => Len(RowsSeen) = Len(table.rows) - 2
                  /\ Len(table.rows) < 2 => data_per_day = <<>>

C1_Witness ==
    /\ pc = "write"
    /\ table.rows = <<RowGood, RowHeader, RowLong, RowShort, RowMarked>>
    /\ Len(data_per_day) = 2
    /\ data_per_day[1][2] = Str(<<"2">>)
    /\ data_per_day[2][2] = None

\* C6: the irradiance field of a record is mj2w of the number of its cell:
\* 0.0 when that number is negative (the sentinel of an unparseable cell
\* included), the number * 10^6 / 3600 otherwise; so it is never negative
\* and never the sentinel.
C6_Irradiance ==
    pc \in {"rows", "write"} =>
        \A k \in 1..Len(data_list_per_hour) :
            LET field == data_list_per_hour[k][13]
                cell == RowsKept[k][12]
                mj == RefFloatOrZero(cell)
            IN  /\ field.t = "float" /\ field.n >= 0 /\ field # Sentinel
                /\ mj.n < 0 => field = Zero
                /\ mj.n >= 0 => field.n * 3600 * mj.d = mj.n * 10^6 * field.d
                /\ cell = Str(<<"1">>) => field = Float(2500, 9)
                /\ cell = Str(<<"1", ".", "5">>) => field = Float(1250, 3)
                /\ cell = Str(<<"-", "1">>) => field = Zero
                /\ cell = Str(<<"x">>) => field = Zero

C6_Witness ==
    /\ pc = "write"
    /\ table.rows = <<RowHeader, RowHeader, RowLong, RowGood>>
    /\ data_per_day[1][13] = Zero
    /\ data_per_day[2][13] = Float(1250, 3)

-----------------------------------------------------------------------------
(* The claims about a run *)

\* the records of the completed days, one day after the other
RECURSIVE Flatten(_)
Flatten(days) ==
    IF days = <<>> THEN <<>> ELSE Head(days).rows \o Flatten(Tail(days))

\* the response fails one of the three checks of scraping
Faulty(r) ==
    \/ r.code # 200
    \/ ~(r.doc.html /\ r.doc.head /\ r.doc.body)
    \/ r.doc.table = None

\* C7: once the response for a date has a status other than 200, lacks html,
\* head or body, or holds no data2_s table, the process can only end, with
\* exit status 1: that date is the last one fetched, every earlier date was
\* completed, and the file holds no record of that date.
C7_FailFast ==
    response # None /\ Faulty(response) =>
        /\ pc \in {"validate", "exit"}
        /\ pc = "validate" => ENABLED ValidateFail /\ ~ENABLED ValidateOk
        /\ fetched[Len(fetched)] = Url(argv.prec_no, argv.block_no, current_date)
        /\ Len(returned) = Len(fetched) - 1
        /\ \A l \in 2..Len(file.lines) : file.lines[l][1] # current_date
        /\ pc = "exit" =>
              /\ exit_status = Status(1)
              /\ cause \in {"read", "status", "structure", "table"}
              /\ days_left >= 1

C7_Witness ==
    /\ pc = "exit"
    /\ cause = "table"
    /\ Faulty(response)
    /\ days_left = 2
    /\ Len(fetched) = 2
    /\ Len(file.lines) = 3
    /\ file.lines[3][1] # current_date

\* C8: the header is written before any fetch; when the next date is fetched,
\* the records of every earlier date are in the file, in extractor order, and
\* one wait has followed each; a completed run has fetched start, start+1,
\* ..., end once each in that order, and its file is the header, once,
\* followed by the records of each date in date order.
C8_SequentialRun ==
    /\ fetched # <<>> => file # None /\ file.lines[1] = fields
    /\ pc = "urlopen" =>
          /\ file.lines = <<fields>> \o Flatten(returned)
          /\ Len(returned) = Len(fetched) - 1
          /\ Len(slept) = Len(returned)
    /\ pc = "done" =>
          /\ exit_status = Status(0)
          /\ Len(fetched) = ToOrdinal(strptime(argv.end).val)
                            - ToOrdinal(strptime(argv.start).val) + 1
          /\ \A k \in 1..Len(fetched) :
                /\ fetched[k].prec_no = argv.prec_no
                /\ fetched[k].block_no = argv.block_no
                /\ strptime(<<fetched[k].year, fetched[k].month, fetched[k].day>>).exc
                       = "none"
                /\ ToOrdinal(Date(fetched[k].year, fetched[k].month, fetched[k].day))
                       = ToOrdinal(strptime(argv.start).val) + k - 1
                /\ returned[k].date
                       = Date(fetched[k].year, fetched[k].month, fetched[k].day)
          /\ Len(returned) = Len(fetched)
          /\ file = File(<<fields>> \o Flatten(returned), TRUE)
          /\ Cardinality({l \in 1..Len(file.lines) : file.lines[l] = fields}) = 1
          /\ slept = [k \in 1..Len(fetched) |-> argv.interval]

C8_Witness ==
    /\ pc = "done"
    /\ argv.start = <<2000, 2, 28>> /\ argv.end = <<2000, 3, 1>>
    /\ argv.interval = Zero
    /\ Len(fetched) = 3
    /\ Len(file.lines) = 6
    /\ file.lines[2][1] = Date(2000, 2, 28) /\ file.lines[2][2] = Str(<<"2">>)
    /\ file.lines[3][1] = Date(2000, 2, 28) /\ file.lines[3][2] = None
    /\ file.lines[4][1] = Date(2000, 2, 29)
    /\ file.lines[5][1] = Date(2000, 3, 1)

\* the command line names no valid range
BadArguments ==
    \/ strptime(argv.start).exc # "none"
    \/ strptime(argv.end).exc # "none"
    \/ ToOrdinal(strptime(argv.start).val) > ToOrdinal(strptime(argv.end).val)

\* C9: when the start or the end text is no valid date, or the start is
\* after the end, the program can only exit with status 1: create_csv is not
\* called, so the file is never opened and nothing is fetched.
C9_BadArguments ==
    BadArguments =>
        /\ pc \in {"main", "exit"}
        /\ pc = "main" => ENABLED (MainBadDate \/ MainBadRange) /\ ~ENABLED MainCall
        /\ pc = "exit" => exit_status = Status(1) /\ cause \in {"date", "range"}
        /\ file = None
        /\ fetched = <<>> /\ attempt_log = <<>>
        /\ returned = <<>> /\ slept = <<>>

C9_Witness ==
    /\ pc = "exit"
    /\ argv.start = <<2000, 3, 1>> /\ argv.end = <<2000, 2, 29>>
    /\ exit_status = Status(1)
    /\ file = None /\ fetched = <<>>

\* fetch_url_with_retry has signalled failure
FetchFailed ==
    pc = "exit" /\ attempt_log # <<>> /\ attempt_log[Len(attempt_log)] # "ok"

\* what the retry loop keeps true whatever makes an attempt fail
RetryShape ==
    /\ Len(attempt_log) <= MAX_RETRIES
    /\ \A k \in 1..Len(attempt_log) : attempt_log[k] = "ok" => k = Len(attempt_log)
    /\ \A k \in 1..Len(waits) : waits[k] = FloatMul(BACKOFF_FACTOR, Float(2^(k - 1), 1))
    /\ \A k \in 2..Len(waits) : waits[k] = FloatMul(Float(2, 1), waits[k - 1])
    /\ FetchFailed => exit_status = Status(1)

=============================================================================
